---- MODULE Spec2Model ----
(***************************************************************************)
(* A model of the timed-event stream algebra of avril (src/src/stream.rs   *)
(* and src/src/var.rs), and of the seed hierarchy (src/src/seed.rs).       *)
(*                                                                         *)
(* A Stream is a boxed iterator of (Duration, E) pairs.  Every iterator    *)
(* type of the source is a record whose field k names the type and whose   *)
(* other fields are the struct's fields; its next() is an operator that    *)
(* returns the item, the iterator's state after the call and the execution *)
(* context cx.  cx carries what one call leaves behind outside the         *)
(* iterator: how often each input was pulled, how often a user function    *)
(* ran, and whether the call panicked or did not return.                   *)
(***************************************************************************)
EXTENDS Integers, Sequences, FiniteSets, TLC

\* Bounds of the model.
MaxLen == 2
MaxDelay == 2
MaxBatch == 2
MaxPulls == 7
MaxForce == 4
MaxForks == 2
MaxStep == 9
MaxDepth == 1

VARIABLES op, arg, res, cx, pc

vars == <<op, arg, res, cx, pc>>

-----------------------------------------------------------------------------
(* Option<T> *)
None == <<>>
Some(x) == <<x>>
IsSome(o) == Len(o) = 1
IsNone(o) == Len(o) = 0

(* Duration: a non-negative length of time.  `a - b` panics when b > a.    *)
ZERO == 0
Underflows(a, b) == b > a

(* The execution context of a call. *)
Inputs == {"A", "B", "F", "P0", "P1", "P2", "P3", "V0", "V1", "V2", "V3"}
Cx0 == [pulled |-> [i \in Inputs |-> 0], calls |-> 0, fuel |-> MaxForce, halt |-> "ok"]
Halted(c) == c.halt # "ok"
Panic(c) == [c EXCEPT !.halt = "panic"]
Diverge(c) == [c EXCEPT !.halt = "diverge"]
Ret(item, it, c) == [item |-> item, it |-> it, cx |-> c]

-----------------------------------------------------------------------------
(* The iterators. *)

\* std::iter::empty()
Empty == [k |-> "Empty"]

\* An input of the program: an iterator over the (delay, event) pairs `items`,
\* known to the context by its name `id`.
Iter(id, items) == [k |-> "Iter", id |-> id, items |-> items]

\* std::vec::IntoIter and std::iter::Once: an iterator the library builds itself.
Vec(items) == [k |-> "Vec", items |-> items]

\* std::iter::Chain { a: Option<A>, b }
Chain(a, b) == [k |-> "Chain", a |-> Some(a), b |-> b]

\* std::iter::Map { iter, f }
Map(source, fun) == [k |-> "Map", source |-> source, fun |-> fun]

\* std::iter::Map whose closure is FnMut and owns a captured variable, as
\* the closure of play owns current_pitch.
MapMut(source, fun, captured) ==
  [k |-> "MapMut", source |-> source, fun |-> fun, captured |-> captured]

\* std::iter::FlatMap with the closure of Stream::flatten: `front` is what is
\* left of the batch being delivered.
Flatten(source) == [k |-> "Flatten", source |-> source, front |-> <<>>]

ChainAt(source1, source2, threshold) ==
  [k |-> "ChainAt", source1 |-> source1, source2 |-> source2, threshold |-> threshold]

Coalesce(source, head, reduce) ==
  [k |-> "Coalesce", source |-> source, head |-> head, reduce |-> reduce]

Drop(source, duration) == [k |-> "Drop", source |-> source, duration |-> duration]

LazyBefore(fun) == [k |-> "Lazy", v |-> "Before", fun |-> Some(fun)]
LazyAfter(iter) == [k |-> "Lazy", v |-> "After", iter |-> iter]

Merge(head1, head2, source1, source2) ==
  [k |-> "Merge", head1 |-> head1, head2 |-> head2,
   source1 |-> source1, source2 |-> source2]

\* struct Var { present, future }
Var(present, future) == [present |-> present, future |-> future]

-----------------------------------------------------------------------------
(* Stream's constructors that pull nothing. *)
Stream_empty == Empty
Stream_immediate(event) == Vec(<<<<ZERO, event>>>>)
Stream_chain(self, other) == Chain(self, other)
Stream_chain_at(self, threshold, other) == ChainAt(self, other, threshold)
Stream_take(self, duration) == Stream_chain_at(self, duration, Stream_empty)
Stream_delay(self, duration) == Stream_chain_at(Stream_empty, duration, self)
Stream_drop(self, duration) == Drop(self, duration)
Stream_map(self, fun) == Map(self, fun)
Stream_flatten(self) == Flatten(self)
Stream_flat_map(self, fun) == Stream_flatten(Stream_map(self, fun))
Stream_lazy(fun) == LazyBefore(fun)

\* The closure of Stream::replay_every, and replay_every itself.
ReplayFn(sample, interval) == [f |-> "replay_every", sample |-> sample, interval |-> interval]
Stream_replay_every(sample, interval) == Stream_lazy(ReplayFn(sample, interval))

\* The closure of Var<Stream<T>>::sequence, and sequence itself.
SequenceFn(var) == [f |-> "sequence", var |-> var]
Var_sequence(self) == Stream_lazy(SequenceFn(self))

\* A factory that returns the stream it was made with.
ConstFn(stream) == [f |-> "const", stream |-> stream]

Var_constant(value) == Var(value, Stream_empty)
Var_from_updates(initial_value, updates) == Var(initial_value, updates)
\* Var::updates with the present after the future.
Var_updates_present_last(self) == Stream_chain(self.future, Stream_immediate(self.present))
Var_updates(self) == Stream_chain(Stream_immediate(self.present), self.future)

-----------------------------------------------------------------------------
(* The user functions handed to map and coalesce. *)
Apply(fun, e) ==
  CASE fun = "updates" -> Var_updates(e)
    [] fun = "inc" -> e + 100
    [] fun = "var_inc" -> Var(e.present + 100, Stream_map(e.future, "inc"))
    [] fun = "batch" -> [i \in 1 .. (e % 3) |-> 10 * e + i]

Reduce(fun, e1, e2) ==
  CASE fun = "sum" -> e1 + e2
    [] fun = "last" -> e2
    [] fun = "poly" -> 2 * e1 + e2

-----------------------------------------------------------------------------
(* Note, the MIDI messages of play, and swap_pitch. *)
Note(semitones) == [semitones |-> semitones]
MiddleC == 60
MidiMax == 127
\* Note::midi, and whether it panics ("midi note out of range").
Note_midi(self) == self.semitones + MiddleC
Note_midi_panics(self) == Note_midi(self) < 0 \/ Note_midi(self) > MidiMax

VELOCITY == 64
AllSoundOff(channel) == [m |-> "AllSoundOff", channel |-> channel]
NoteOff(channel, key, velocity) ==
  [m |-> "NoteOff", channel |-> channel, key |-> key, velocity |-> velocity]
NoteOn(channel, key, velocity) ==
  [m |-> "NoteOn", channel |-> channel, key |-> key, velocity |-> velocity]

\* swap_pitch without the NoteOff of the old pitch.
swap_pitch_no_off(old, new, channel) ==
  IF IsSome(new) THEN <<NoteOn(channel, Note_midi(new[1]), VELOCITY)>> ELSE <<>>

swap_pitch(old, new, channel) ==
  (IF IsSome(old) THEN <<NoteOff(channel, Note_midi(old[1]), VELOCITY)>> ELSE <<>>)
  \o (IF IsSome(new) THEN <<NoteOn(channel, Note_midi(new[1]), VELOCITY)>> ELSE <<>>)
swap_pitch_panics(old, new) ==
  \/ IsSome(old) /\ Note_midi_panics(old[1])
  \/ IsSome(new) /\ Note_midi_panics(new[1])

-----------------------------------------------------------------------------
(* next() of every iterator. *)
RECURSIVE Stream_next(_, _)
RECURSIVE ChainAt_next(_, _)
RECURSIVE Coalesce_next(_, _)
RECURSIVE Drop_next(_, _)
RECURSIVE Lazy_next(_, _)
RECURSIVE Merge_next(_, _)
RECURSIVE Chain_next(_, _)
RECURSIVE Map_next(_, _)
RECURSIVE Flatten_next(_, _)
RECURSIVE Call(_, _)

Iter_next(it, c) ==
  LET c1 == [c EXCEPT !.pulled[it.id] = @ + 1]
  IN  IF it.items = <<>>
      THEN Ret(None, it, c1)
      ELSE Ret(Some(Head(it.items)), [it EXCEPT !.items = Tail(@)], c1)

Vec_next(it, c) ==
  IF it.items = <<>>
  THEN Ret(None, it, c)
  ELSE Ret(Some(Head(it.items)), [it EXCEPT !.items = Tail(@)], c)

Chain_next(it, c) ==
  LET ra == Stream_next(it.a[1], c)
      rb == Stream_next(it.b, IF IsSome(it.a) THEN ra.cx ELSE c)
  IN  IF IsSome(it.a) /\ Halted(ra.cx) THEN Ret(None, [it EXCEPT !.a = Some(ra.it)], ra.cx)
      ELSE IF IsSome(it.a) /\ IsSome(ra.item)
      THEN Ret(ra.item, [it EXCEPT !.a = Some(ra.it)], ra.cx)
      ELSE Ret(rb.item, [it EXCEPT !.a = None, !.b = rb.it], rb.cx)

Map_next(it, c) ==
  LET r == Stream_next(it.source, c)
      s == [it EXCEPT !.source = r.it]
  IN  IF Halted(r.cx) \/ IsNone(r.item) THEN Ret(None, s, r.cx)
      ELSE Ret(Some(<<r.item[1][1], Apply(it.fun, r.item[1][2])>>), s,
               [r.cx EXCEPT !.calls = @ + 1])

\* The closure of play: swap_pitch(replace(&mut current_pitch, new_pitch),
\* new_pitch, channel); fun.channel is the channel it captured.
MapMut_next(it, c) ==
  LET r == Stream_next(it.source, c)
      s == [it EXCEPT !.source = r.it]
  IN  IF Halted(r.cx) \/ IsNone(r.item) THEN Ret(None, s, r.cx)
      ELSE IF swap_pitch_panics(it.captured, r.item[1][2])
      THEN Ret(None, [s EXCEPT !.captured = r.item[1][2]], Panic(r.cx))
      ELSE Ret(Some(<<r.item[1][1],
                      swap_pitch(it.captured, r.item[1][2], it.fun.channel)>>),
               [s EXCEPT !.captured = r.item[1][2]],
               [r.cx EXCEPT !.calls = @ + 1])

\* flat_map(|(d, es)| once(d).chain(repeat(0)).zip(es))
Explode(d, es) == [i \in 1 .. Len(es) |-> <<IF i = 1 THEN d ELSE ZERO, es[i]>>]

Flatten_next(it, c) ==
  IF it.front # <<>>
  THEN Ret(Some(Head(it.front)), [it EXCEPT !.front = Tail(@)], c)
  ELSE LET r == Stream_next(it.source, c)
           s == [it EXCEPT !.source = r.it]
       IN  IF Halted(r.cx) \/ IsNone(r.item) THEN Ret(None, s, r.cx)
           ELSE Flatten_next([s EXCEPT !.front = Explode(r.item[1][1], r.item[1][2])], r.cx)

\* ChainAt::next without the leftover threshold added to source2's first delay.
ChainAt_next_no_leftover(it, c) ==
  LET r1 == Stream_next(it.source1, c)
      s1 == [it EXCEPT !.source1 = r1.it]
  IN  IF Halted(r1.cx) THEN Ret(None, s1, r1.cx)
      ELSE IF IsSome(r1.item) /\ r1.item[1][1] <= it.threshold
      THEN Ret(r1.item, [s1 EXCEPT !.threshold = @ - r1.item[1][1]], r1.cx)
      ELSE LET r2 == Stream_next(it.source2, r1.cx)
               s2 == [it EXCEPT !.source1 = Empty, !.source2 = r2.it]
           IN  IF Halted(r2.cx) THEN Ret(None, s2, r2.cx)
               ELSE Ret(r2.item, [s2 EXCEPT !.threshold = ZERO], r2.cx)

\* ChainAt::next that keeps source1 after the event that crosses the threshold.
ChainAt_next_keeps_source1(it, c) ==
  LET r1 == Stream_next(it.source1, c)
      s1 == [it EXCEPT !.source1 = r1.it]
  IN  IF Halted(r1.cx) THEN Ret(None, s1, r1.cx)
      ELSE IF IsSome(r1.item) /\ r1.item[1][1] <= it.threshold
      THEN Ret(r1.item, [s1 EXCEPT !.threshold = @ - r1.item[1][1]], r1.cx)
      ELSE LET r2 == Stream_next(it.source2, r1.cx)
               s2 == [s1 EXCEPT !.source2 = r2.it]
           IN  IF Halted(r2.cx) THEN Ret(None, s2, r2.cx)
               ELSE IF IsSome(r2.item)
               THEN Ret(Some(<<r2.item[1][1] + it.threshold, r2.item[1][2]>>),
                        [s2 EXCEPT !.threshold = ZERO], r2.cx)
               ELSE Ret(None, s2, r2.cx)

ChainAt_next(it, c) ==
  LET r1 == Stream_next(it.source1, c)
      s1 == [it EXCEPT !.source1 = r1.it]
  IN  IF Halted(r1.cx) THEN Ret(None, s1, r1.cx)
      ELSE IF IsSome(r1.item) /\ r1.item[1][1] <= it.threshold
      THEN LET d == r1.item[1][1]
           IN  Ret(r1.item,
                   [s1 EXCEPT !.threshold = @ - d],
                   IF Underflows(it.threshold, d) THEN Panic(r1.cx) ELSE r1.cx)
      ELSE LET r2 == Stream_next(it.source2, r1.cx)
               s2 == [it EXCEPT !.source1 = Empty, !.source2 = r2.it]
           IN  IF Halted(r2.cx) THEN Ret(None, s2, r2.cx)
               ELSE IF IsSome(r2.item)
               THEN Ret(Some(<<r2.item[1][1] + it.threshold, r2.item[1][2]>>),
                        [s2 EXCEPT !.threshold = ZERO], r2.cx)
               ELSE Ret(None, s2, r2.cx)

\* Coalesce::next with reduce's arguments the other way round.
Coalesce_next_swapped(it, c) ==
  LET r == Stream_next(it.source, c)
      s == [it EXCEPT !.source = r.it]
  IN  IF Halted(r.cx) THEN Ret(None, s, r.cx)
      ELSE IF IsSome(it.head) /\ IsSome(r.item) /\ r.item[1][1] = ZERO
      THEN Coalesce_next(
             [s EXCEPT !.head = Some(<<it.head[1][1],
                                       Reduce(it.reduce, r.item[1][2], it.head[1][2])>>)],
             [r.cx EXCEPT !.calls = @ + 1])
      ELSE Ret(it.head, [s EXCEPT !.head = r.item], r.cx)

Coalesce_next(it, c) ==
  LET r == Stream_next(it.source, c)
      s == [it EXCEPT !.source = r.it]
  IN  IF Halted(r.cx) THEN Ret(None, s, r.cx)
      ELSE IF IsSome(it.head) /\ IsSome(r.item) /\ r.item[1][1] = ZERO
      THEN Coalesce_next(
             [s EXCEPT !.head = Some(<<it.head[1][1],
                                       Reduce(it.reduce, it.head[1][2], r.item[1][2])>>)],
             [r.cx EXCEPT !.calls = @ + 1])
      ELSE Ret(it.head, [s EXCEPT !.head = r.item], r.cx)

\* Drop::next with `>` for `>=`: an event at exactly the duration is dropped.
Drop_next_strict(it, c) ==
  LET r == Stream_next(it.source, c)
      s == [it EXCEPT !.source = r.it]
  IN  IF Halted(r.cx) \/ IsNone(r.item) THEN Ret(None, s, r.cx)
      ELSE LET d == r.item[1][1]
           IN  IF d > it.duration
               THEN Ret(Some(<<d - it.duration, r.item[1][2]>>),
                        [s EXCEPT !.duration = ZERO], r.cx)
               ELSE Drop_next([s EXCEPT !.duration = @ - d], r.cx)

\* Drop::next that leaves the first surviving event's delay as it was.
Drop_next_no_reduce(it, c) ==
  LET r == Stream_next(it.source, c)
      s == [it EXCEPT !.source = r.it]
  IN  IF Halted(r.cx) \/ IsNone(r.item) THEN Ret(None, s, r.cx)
      ELSE LET d == r.item[1][1]
           IN  IF d >= it.duration
               THEN Ret(r.item, [s EXCEPT !.duration = ZERO], r.cx)
               ELSE Drop_next([s EXCEPT !.duration = @ - d], r.cx)

Drop_next(it, c) ==
  LET r == Stream_next(it.source, c)
      s == [it EXCEPT !.source = r.it]
  IN  IF Halted(r.cx) \/ IsNone(r.item) THEN Ret(None, s, r.cx)
      ELSE LET d == r.item[1][1]
           IN  IF d >= it.duration
               THEN Ret(Some(<<d - it.duration, r.item[1][2]>>),
                        [s EXCEPT !.duration = ZERO],
                        IF Underflows(d, it.duration) THEN Panic(r.cx) ELSE r.cx)
               ELSE IF Underflows(it.duration, d) THEN Ret(None, s, Panic(r.cx))
               ELSE Drop_next([s EXCEPT !.duration = @ - d], r.cx)

\* The closure of Var<Stream>::sequence chaining to the next stream alone,
\* not to the sequence of the rest.
Call_next_stream_only(fun, c) ==
  LET c1 == [c EXCEPT !.calls = @ + 1]
  IN  CASE fun.f = "const" -> [it |-> fun.stream, cx |-> c1]
        [] fun.f = "replay_every" ->
             [it |-> Stream_chain_at(Vec(fun.sample), fun.interval,
                                     Stream_replay_every(fun.sample, fun.interval)),
              cx |-> c1]
        [] fun.f = "sequence" ->
             LET r == Stream_next(fun.var.future, c1)
             IN  IF Halted(r.cx) \/ IsNone(r.item)
                 THEN [it |-> fun.var.present, cx |-> r.cx]
                 ELSE [it |-> Stream_chain_at(fun.var.present, r.item[1][1], r.item[1][2]),
                       cx |-> r.cx]

\* The closure of Stream::replay_every with chain for chain_at: the next
\* replay starts at the snapshot's last event, not at the interval.
Call_replay_chain(fun, c) ==
  LET c1 == [c EXCEPT !.calls = @ + 1]
  IN  CASE fun.f = "const" -> [it |-> fun.stream, cx |-> c1]
        [] fun.f = "replay_every" ->
             [it |-> Stream_chain(Vec(fun.sample),
                                  Stream_replay_every(fun.sample, fun.interval)),
              cx |-> c1]
        [] fun.f = "sequence" ->
             LET r == Stream_next(fun.var.future, c1)
             IN  IF Halted(r.cx) \/ IsNone(r.item)
                 THEN [it |-> fun.var.present, cx |-> r.cx]
                 ELSE [it |-> Stream_chain_at(fun.var.present, r.item[1][1],
                                              Var_sequence(Var(r.item[1][2], r.it))),
                       cx |-> r.cx]

\* Calling a closure handed to Stream::lazy: the stream it returns.
Call(fun, c) ==
  LET c1 == [c EXCEPT !.calls = @ + 1]
  IN  CASE fun.f = "const" -> [it |-> fun.stream, cx |-> c1]
        [] fun.f = "replay_every" ->
             [it |-> Stream_chain_at(Vec(fun.sample), fun.interval,
                                     Stream_replay_every(fun.sample, fun.interval)),
              cx |-> c1]
        [] fun.f = "sequence" ->
             LET r == Stream_next(fun.var.future, c1)
             IN  IF Halted(r.cx) \/ IsNone(r.item)
                 THEN [it |-> fun.var.present, cx |-> r.cx]
                 ELSE [it |-> Stream_chain_at(fun.var.present, r.item[1][1],
                                              Var_sequence(Var(r.item[1][2], r.it))),
                       cx |-> r.cx]

\* Lazy::next that stays Before: the factory is called at every pull.
Lazy_next_stays_before(it, c) ==
  IF c.fuel = 0 THEN Ret(None, it, Diverge(c))
  ELSE LET f == Call(it.fun[1], [c EXCEPT !.fuel = @ - 1])
           r == Stream_next(f.it, f.cx)
       IN  Ret(r.item, it, r.cx)

Lazy_next(it, c) ==
  IF it.v = "Before"
  THEN IF c.fuel = 0 THEN Ret(None, it, Diverge(c))
       ELSE LET r == Call(it.fun[1], [c EXCEPT !.fuel = @ - 1])
            IN  IF Halted(r.cx) THEN Ret(None, it, r.cx)
                ELSE Lazy_next(LazyAfter(r.it), r.cx)
  ELSE LET r == Stream_next(it.iter, c)
       IN  Ret(r.item, LazyAfter(r.it), r.cx)

\* Merge::next with the comparison the other way round.
Merge_next_reversed(it, c) ==
  LET r1 == Stream_next(it.source1, c)
      r2 == Stream_next(it.source2, c)
  IN  IF IsNone(it.head2)
      THEN Ret(it.head1, [it EXCEPT !.head1 = r1.item, !.source1 = r1.it], r1.cx)
      ELSE IF IsNone(it.head1)
      THEN Ret(it.head2, [it EXCEPT !.head2 = r2.item, !.source2 = r2.it], r2.cx)
      ELSE LET d1 == it.head1[1][1]
               d2 == it.head2[1][1]
           IN  IF d1 >= d2
               THEN Ret(it.head1,
                        [it EXCEPT !.head2 = Some(<<d2 - d1, it.head2[1][2]>>),
                                   !.head1 = r1.item, !.source1 = r1.it],
                        IF Underflows(d2, d1) THEN Panic(r1.cx) ELSE r1.cx)
               ELSE Ret(it.head2,
                        [it EXCEPT !.head1 = Some(<<d1 - d2, it.head1[1][2]>>),
                                   !.head2 = r2.item, !.source2 = r2.it],
                        IF Underflows(d1, d2) THEN Panic(r2.cx) ELSE r2.cx)

\* Merge::next with `<` for `<=`: a tie goes to the right operand.
Merge_next_tie_right(it, c) ==
  LET r1 == Stream_next(it.source1, c)
      r2 == Stream_next(it.source2, c)
  IN  IF IsNone(it.head2)
      THEN Ret(it.head1, [it EXCEPT !.head1 = r1.item, !.source1 = r1.it], r1.cx)
      ELSE IF IsNone(it.head1)
      THEN Ret(it.head2, [it EXCEPT !.head2 = r2.item, !.source2 = r2.it], r2.cx)
      ELSE LET d1 == it.head1[1][1]
               d2 == it.head2[1][1]
           IN  IF d1 < d2
               THEN Ret(it.head1,
                        [it EXCEPT !.head2 = Some(<<d2 - d1, it.head2[1][2]>>),
                                   !.head1 = r1.item, !.source1 = r1.it], r1.cx)
               ELSE Ret(it.head2,
                        [it EXCEPT !.head1 = Some(<<d1 - d2, it.head1[1][2]>>),
                                   !.head2 = r2.item, !.source2 = r2.it], r2.cx)

\* Merge::next that pulls the right source as well when it yields the left head.
Merge_next_pulls_both(it, c) ==
  LET r1 == Stream_next(it.source1, c)
      r2 == Stream_next(it.source2, c)
      r12 == Stream_next(it.source2, r1.cx)
  IN  IF IsNone(it.head2)
      THEN Ret(it.head1, [it EXCEPT !.head1 = r1.item, !.source1 = r1.it], r1.cx)
      ELSE IF IsNone(it.head1)
      THEN Ret(it.head2, [it EXCEPT !.head2 = r2.item, !.source2 = r2.it], r2.cx)
      ELSE LET d1 == it.head1[1][1]
               d2 == it.head2[1][1]
           IN  IF d1 <= d2
               THEN Ret(it.head1,
                        [it EXCEPT !.head2 = Some(<<d2 - d1, it.head2[1][2]>>),
                                   !.head1 = r1.item, !.source1 = r1.it,
                                   !.source2 = r12.it], r12.cx)
               ELSE Ret(it.head2,
                        [it EXCEPT !.head1 = Some(<<d1 - d2, it.head1[1][2]>>),
                                   !.head2 = r2.item, !.source2 = r2.it], r2.cx)

Merge_next(it, c) ==
  LET r1 == Stream_next(it.source1, c)
      r2 == Stream_next(it.source2, c)
      take1 == Ret(it.head1, [it EXCEPT !.head1 = r1.item, !.source1 = r1.it], r1.cx)
      take2 == Ret(it.head2, [it EXCEPT !.head2 = r2.item, !.source2 = r2.it], r2.cx)
  IN  IF IsNone(it.head2) THEN take1
      ELSE IF IsNone(it.head1) THEN take2
      ELSE LET d1 == it.head1[1][1]
               d2 == it.head2[1][1]
           IN  IF d1 <= d2
               THEN Ret(it.head1,
                        [it EXCEPT !.head2 = Some(<<d2 - d1, it.head2[1][2]>>),
                                   !.head1 = r1.item, !.source1 = r1.it],
                        IF Underflows(d2, d1) THEN Panic(r1.cx) ELSE r1.cx)
               ELSE Ret(it.head2,
                        [it EXCEPT !.head1 = Some(<<d1 - d2, it.head1[1][2]>>),
                                   !.head2 = r2.item, !.source2 = r2.it],
                        IF Underflows(d1, d2) THEN Panic(r2.cx) ELSE r2.cx)

Stream_next(it, c) ==
  CASE it.k = "Empty" -> Ret(None, it, c)
    [] it.k = "Iter" -> Iter_next(it, c)
    [] it.k = "Vec" -> Vec_next(it, c)
    [] it.k = "Chain" -> Chain_next(it, c)
    [] it.k = "Map" -> Map_next(it, c)
    [] it.k = "MapMut" -> MapMut_next(it, c)
    [] it.k = "Flatten" -> Flatten_next(it, c)
    [] it.k = "ChainAt" -> ChainAt_next(it, c)
    [] it.k = "Coalesce" -> Coalesce_next(it, c)
    [] it.k = "Drop" -> Drop_next(it, c)
    [] it.k = "Lazy" -> Lazy_next(it, c)
    [] it.k = "Merge" -> Merge_next(it, c)

-----------------------------------------------------------------------------
(* Stream's and Var's constructors that pull from their inputs: each       *)
(* returns the stream built and the context after the pulls.               *)
Stream_coalesce(self, reduce, c) ==
  LET r == Stream_next(self, c)
  IN  [it |-> Coalesce(r.it, r.item, reduce), cx |-> r.cx]

Stream_merge(self, other, c) ==
  LET r1 == Stream_next(self, c)
      r2 == Stream_next(other, r1.cx)
  IN  [it |-> Merge(r1.item, r2.item, r1.it, r2.it), cx |-> r2.cx]

\* fold1(Self::merge).unwrap_or_else(Self::empty)
RECURSIVE MergeFold(_, _, _)
\* The fold with merge's operands the other way round.
MergeFold_swapped(acc, streams, c) ==
  IF streams = <<>> THEN [it |-> acc, cx |-> c]
  ELSE LET m == Stream_merge(Head(streams), acc, c)
       IN  MergeFold(m.it, Tail(streams), m.cx)

MergeFold(acc, streams, c) ==
  IF streams = <<>> THEN [it |-> acc, cx |-> c]
  ELSE LET m == Stream_merge(acc, Head(streams), c)
       IN  MergeFold(m.it, Tail(streams), m.cx)

Stream_merge_all(streams, c) ==
  IF streams = <<>> THEN [it |-> Stream_empty, cx |-> c]
  ELSE MergeFold(Head(streams), Tail(streams), c)

\* into_iter().collect()
RECURSIVE Collect(_, _, _)
Collect(it, c, acc) ==
  LET r == Stream_next(it, c)
  IN  IF Halted(r.cx) \/ IsNone(r.item) THEN [items |-> acc, cx |-> r.cx]
      ELSE Collect(r.it, r.cx, Append(acc, r.item[1]))

\* Stream::repeat_every that collects the whole source and takes afterwards.
Stream_repeat_every_collect_all(self, interval, c) ==
  LET all == Collect(self, c, <<>>)
      sample == Collect(Stream_take(Vec(all.items), interval), all.cx, <<>>)
  IN  [it |-> Stream_replay_every(sample.items, interval), cx |-> sample.cx]

Stream_repeat_every(self, interval, c) ==
  LET sample == Collect(Stream_take(self, interval), c, <<>>)
  IN  [it |-> Stream_replay_every(sample.items, interval), cx |-> sample.cx]

\* Var::map: func runs on the present at once, on the future as it is pulled.
Var_map(self, func, c) ==
  [var |-> Var(Apply(func, self.present), Stream_map(self.future, func)),
   cx |-> [c EXCEPT !.calls = @ + 1]]

\* Var<Var<T>>::sequence: the Var built, or a panic at unreachable!().
Var_var_sequence(self, c) ==
  LET m == Var_map(self, "updates", c)
      r == Stream_next(Var_sequence(m.var), m.cx)
  IN  IF ~Halted(r.cx) /\ IsSome(r.item) /\ r.item[1][1] = ZERO
      THEN [var |-> Var(r.item[1][2], r.it), cx |-> r.cx]
      ELSE [var |-> Var(0, r.it), cx |-> IF Halted(r.cx) THEN r.cx ELSE Panic(r.cx)]

\* Var::repeat_every: the present is cloned, the future is the repetition of
\* updates(), whose snapshot is taken at once.
Var_repeat_every(self, interval, c) ==
  LET m == Stream_repeat_every(Var_updates(self), interval, c)
  IN  [var |-> Var(self.present, m.it), cx |-> m.cx]

\* An inner Var built by one of Var's constructors: constant(v),
\* from_updates(v, a), from_updates(v, a).map(inc) or
\* from_updates(v, a).repeat_every(t).
Var_build(kind, v, a, t, c) ==
  CASE kind = "constant" -> [var |-> Var_constant(v), cx |-> c]
    [] kind = "from_updates" -> [var |-> Var_from_updates(v, a), cx |-> c]
    [] kind = "map" -> Var_map(Var_from_updates(v, a), "inc", c)
    [] kind = "repeat_every" -> Var_repeat_every(Var_from_updates(v, a), t, c)

\* The Var of Vars over the inner Vars i1 and i2, as a says: constant(i1)
\* or from_updates(i1, [(d, i2)]), mapped with |v| v.map(inc) or not.
Var_outer(a, i1, i2) ==
  LET built == IF a.n = 0 THEN Var_constant(i1.var)
               ELSE Var_from_updates(i1.var, Iter("F", <<<<a.d, i2.var>>>>))
  IN  IF a.mapped THEN Var_map(built, "var_inc", i2.cx)
      ELSE [var |-> built, cx |-> i2.cx]

Var_outer_sequence(outer) == Var_var_sequence(outer.var, outer.cx)

\* The second inner Var is built after the first, then the outer Var, then
\* sequence() is called on it.
Var_var_built(a, i1) ==
  Var_outer_sequence(
    Var_outer(a, i1, Var_build(a.kind, 2, Iter("V1", a.b), a.t, i1.cx)))

\* play(channel, pitch): coalesce pulls the first event of updates().
play_coalesced(channel, coalesced) ==
  [it |-> Stream_chain(
            Stream_immediate(AllSoundOff(channel)),
            Stream_flatten(MapMut(coalesced.it, [f |-> "swap_pitch", channel |-> channel],
                                  None))),
   cx |-> coalesced.cx]
play(channel, pitch, c) ==
  play_coalesced(channel,
    Stream_coalesce(Stream_chain(Var_updates(pitch), Stream_immediate(None)), "last", c))

-----------------------------------------------------------------------------
(* Scale, Key and NoteInKey.  An iterator of intervals or of notes that    *)
(* never ends is the sequence of its first len items.                      *)
RECURSIVE SumSeq(_, _)
SumSeq(s, i) == IF i = 0 THEN 0 ELSE SumSeq(s, i - 1) + s[i]
Octave == 12

Note_offset(self, semitones) == Note(self.semitones + semitones)

\* Scale::from_intervals asserts that the intervals add up to an octave.
Scale_from_intervals_asserts(intervals) == SumSeq(intervals, Len(intervals)) = Octave
Scale_major == <<2, 2, 1, 2, 2, 2, 1>>
Scale_minor == <<2, 1, 2, 2, 1, 2, 2>>
Scale_pentatonic == <<4, 1, 2, 4, 1>>
Scale_num_intervals(self) == Len(self)
\* self.0.iter().copied().cycle()
Scale_intervals_ascending(self, len) ==
  [i \in 1 .. len |-> self[((i - 1) % Len(self)) + 1]]
\* The intervals negated but not reversed.
Scale_intervals_descending_not_reversed(self, len) ==
  [i \in 1 .. len |-> -self[((i - 1) % Len(self)) + 1]]
\* self.0.iter().rev().map(|x| -x).cycle()
Scale_intervals_descending(self, len) ==
  [i \in 1 .. len |-> -self[Len(self) - ((i - 1) % Len(self))]]

Key(tonic, scale) == [tonic |-> tonic, scale |-> scale]
NoteInKey(key, note, scale_steps) ==
  [key |-> key, note |-> note, scale_steps |-> scale_steps]

\* enumerate().scan(self.tonic, ..): item i (from 0) is the tonic offset by
\* the i intervals before it, i * direction steps from the tonic.
Key_notes_from_intervals(self, intervals, direction) ==
  [i \in 1 .. Len(intervals) |->
     NoteInKey(self, Note_offset(self.tonic, SumSeq(intervals, i - 1)),
               (i - 1) * direction)]
Key_notes_ascending(self, len) ==
  Key_notes_from_intervals(self, Scale_intervals_ascending(self.scale, len), 1)
Key_notes_descending(self, len) ==
  Key_notes_from_intervals(self, Scale_intervals_descending(self.scale, len), -1)
\* nth(k) takes k + 1 notes and returns the last.
Key_at(self, scale_steps_from_tonic) ==
  IF scale_steps_from_tonic >= 0
  THEN Key_notes_ascending(self, scale_steps_from_tonic + 1)[scale_steps_from_tonic + 1]
  ELSE Key_notes_descending(self, -scale_steps_from_tonic + 1)[-scale_steps_from_tonic + 1]
NoteInKey_offset(self, scale_steps) == Key_at(self.key, self.scale_steps + scale_steps)

-----------------------------------------------------------------------------
(* Seed(u64) and the FNV-1a hasher it forks with.  A u64 is the sequence   *)
(* of its 8 bytes, least significant first, so that the product keeps its  *)
(* 64 bits.                                                                *)
U64 == [1 .. 8 -> 0 .. 255]
Seed(bytes) == bytes
\* Seed::DELIM = 0xe16013eafc14eeed
DELIM == <<237, 238, 20, 252, 234, 19, 96, 225>>
\* The FNV prime 0x100000001b3
FnvPrime == <<179, 1, 0, 0, 0, 1, 0, 0>>

RECURSIVE BitXor(_, _)
BitXor(a, b) ==
  IF a = 0 /\ b = 0 THEN 0
  ELSE ((a + b) % 2) + 2 * BitXor(a \div 2, b \div 2)

\* u64::wrapping_mul: the low 8 bytes of the product, byte by byte.
\* u64::wrapping_mul: the low 8 bytes of the long multiplication of h by p;
\* t_i is column i with the carry of column i - 1.
WrappingMul(h, p) ==
  LET t1 == h[1] * p[1]
      t2 == h[1] * p[2] + h[2] * p[1] + (t1 \div 256)
      t3 == h[1] * p[3] + h[2] * p[2] + h[3] * p[1] + (t2 \div 256)
      t4 == h[1] * p[4] + h[2] * p[3] + h[3] * p[2] + h[4] * p[1]
            + (t3 \div 256)
      t5 == h[1] * p[5] + h[2] * p[4] + h[3] * p[3] + h[4] * p[2]
            + h[5] * p[1] + (t4 \div 256)
      t6 == h[1] * p[6] + h[2] * p[5] + h[3] * p[4] + h[4] * p[3]
            + h[5] * p[2] + h[6] * p[1] + (t5 \div 256)
      t7 == h[1] * p[7] + h[2] * p[6] + h[3] * p[5] + h[4] * p[4]
            + h[5] * p[3] + h[6] * p[2] + h[7] * p[1] + (t6 \div 256)
      t8 == h[1] * p[8] + h[2] * p[7] + h[3] * p[6] + h[4] * p[5]
            + h[5] * p[4] + h[6] * p[3] + h[7] * p[2] + h[8] * p[1]
            + (t7 \div 256)
  IN  <<t1 % 256, t2 % 256, t3 % 256, t4 % 256, t5 % 256, t6 % 256, t7 % 256, t8 % 256>>

\* FnvHasher::write: for each byte, xor it in and multiply by the prime.
\* Fnv_upto is the state after the first i bytes.
RECURSIVE Fnv_upto(_, _, _)
Fnv_upto(h, bytes, i) ==
  IF i = 0 THEN h
  ELSE LET prev == Fnv_upto(h, bytes, i - 1)
       IN  CASE prev \in U64 ->
                  WrappingMul([prev EXCEPT ![1] = BitXor(@, bytes[i])], FnvPrime)
Fnv_write(h, bytes) == Fnv_upto(h, bytes, Len(bytes))

\* What a label feeds the hasher: a &str its bytes and then 0xff, an integer
\* its bytes, least significant first.
Str(bytes) == [t |-> "str", bytes |-> bytes]
Int32(bytes) == [t |-> "i32", bytes |-> bytes]
HashBytes(route) == IF route.t = "str" THEN route.bytes \o <<255>> ELSE route.bytes

\* Seed::fork without the label.
Seed_fork_no_route(self, route) == Seed(Fnv_write(self, DELIM))

Seed_fork(self, route) == Seed(Fnv_write(Fnv_write(self, DELIM), HashBytes(route)))
Seed_new(seed) == Seed_fork(Seed(<<0, 0, 0, 0, 0, 0, 0, 0>>), seed)

-----------------------------------------------------------------------------
(* The inputs: every sequence of at most n delays, each at most MaxDelay.  *)
(* The k-th event of an input carries the value base + k, so that every    *)
(* event of a run is told from every other.                                *)
Delays == 0 .. MaxDelay
DelaySeqs(n) == UNION {[1 .. k -> Delays] : k \in 0 .. n}
Events(ds, base) == [i \in 1 .. Len(ds) |-> <<ds[i], base + i>>]
Streams(n, base) == {Events(ds, base) : ds \in DelaySeqs(n)}
LongLen == MaxLen + 2

\* The examples of the specification's section 8.
MergeExampleA == <<<<1, 11>>, <<3, 12>>>>
MergeExampleB == <<<<2, 21>>, <<1, 22>>>>
ChainAtExampleA == <<<<5, 11>>>>
CoalesceExample == <<<<2, 1>>, <<0, 2>>, <<0, 3>>, <<4, 9>>>>
UpdatesExample == <<<<3, 11>>>>

\* What the consumer holds of one stream: the iterator, the events it has
\* yielded, whether it has returned None, and the number of next() calls.
Result(it) == [it |-> it, out |-> <<>>, ended |-> FALSE, pulls |-> 0]

Built(c) == IF c.halt = "ok" THEN "built" ELSE c.halt

Start(o) == op = o /\ res = <<>> /\ cx = Cx0 /\ pc = "new"

Init_merge ==
  /\ Start("merge")
  /\ arg \in [a : Streams(MaxLen, 10), b : Streams(MaxLen, 20)]
             \cup {[a |-> MergeExampleA, b |-> MergeExampleB]}

Init_chain_at ==
  /\ Start("chain_at")
  /\ arg \in [a : Streams(MaxLen, 10) \cup {ChainAtExampleA},
              b : Streams(MaxLen, 20), t : 0 .. MaxDelay + 1]

Init_delay ==
  /\ Start("delay")
  /\ arg \in [a : Streams(LongLen, 10), t : 0 .. MaxDelay + 1]

Init_take_drop ==
  /\ Start("take_drop")
  /\ arg \in [a : Streams(MaxLen + 1, 10), t : 0 .. 2 * MaxDelay + 1]

Init_repeat_every ==
  /\ Start("repeat_every")
  /\ arg \in [a : Streams(LongLen, 10), t : 0 .. MaxDelay + 1]

Init_coalesce ==
  /\ Start("coalesce")
  /\ arg \in [a : Streams(LongLen, 0) \cup {CoalesceExample},
              reduce : {"sum", "last", "poly"}]

Init_lazy ==
  /\ Start("lazy")
  /\ arg \in [a : Streams(LongLen, 10)]

Init_updates ==
  /\ Start("updates")
  /\ arg \in [v0 : {1}, a : Streams(LongLen, 10) \cup {UpdatesExample}]

\* A Var of streams: the present stream ps[1] and the future
\* [(ds[1], ps[2]), (ds[2], ps[3]), ...].  The streams have the delays p
\* and q in turn (q is short when there are more than two streams); every
\* stream has values of its own.
Init_sequence ==
  /\ Start("sequence")
  /\ \E n \in 0 .. MaxLen, p \in DelaySeqs(MaxLen) :
       \E q \in DelaySeqs(CASE n = 0 -> 0 [] n = 1 -> MaxLen [] OTHER -> 1) :
         \E ds \in [1 .. n -> Delays] :
           arg = [ps |-> [k \in 1 .. n + 1 |-> Events(IF k % 2 = 1 THEN p ELSE q, 10 * k)],
                  ds |-> ds]

\* A stream of batches: event i carries sz[i] values.
Init_flatten ==
  /\ Start("flatten")
  /\ \E ds \in DelaySeqs(MaxLen) :
       \E sz \in [1 .. Len(ds) -> 0 .. MaxBatch] :
         arg = [a |-> [i \in 1 .. Len(ds) |->
                         <<ds[i], [j \in 1 .. sz[i] |-> 10 * i + j]>>]]

Init_map ==
  /\ Start("map")
  /\ arg \in [a : Streams(LongLen, 10)]

Init_merge_all ==
  /\ Start("merge_all")
  /\ \E n \in 0 .. 3, a \in Streams(MaxLen, 10), b \in Streams(MaxLen - 1, 20),
        c \in Streams(MaxLen - 1, 30) :
       arg = [ss |-> SubSeq(<<a, b, c>>, 1, n)]

\* A Var of Vars: the present Var(1, a) and the future [(ds[1], Var(2, b))].
Init_sequence_var ==
  /\ Start("sequence_var")
  /\ \E n \in 0 .. 1, a \in Streams(MaxLen, 10), b \in Streams(MaxLen, 20) :
       \E ds \in [1 .. n -> Delays] :
         arg = [vs |-> SubSeq(<<[v |-> 1, a |-> a], [v |-> 2, b |-> b]>>, 1, n + 1),
                ds |-> ds]

Init_var_repeat_every ==
  /\ Start("var_repeat_every")
  /\ arg \in [v0 : {1}, a : Streams(MaxLen, 10), t : 0 .. MaxDelay + 1]

\* A Var of Vars whose inner Vars are built in the way kind says from the
\* values 1 and 2 and the streams a and b, and whose outer Var is
\* from_updates(inner1, [(d, inner2)]) or constant(inner1) (n = 0), mapped
\* or not.
VarKinds == {"constant", "from_updates", "map", "repeat_every"}
Init_var_var ==
  /\ Start("var_var")
  /\ arg \in [kind : VarKinds, a : Streams(MaxLen - 1, 10), b : Streams(MaxLen - 1, 20),
               t : 0 .. 1, n : 0 .. 1, d : Delays, mapped : BOOLEAN]

\* The pitches of a voice: silence, two notes a MIDI key can name and one
\* that it cannot; a Var of them changes at most MaxLen times.
Pitches == {None, Some(Note(0)), Some(Note(2)), Some(Note(MidiMax - MiddleC + 1))}
PitchStreams ==
  UNION {[1 .. n -> (0 .. 1) \X Pitches] : n \in 0 .. MaxLen}
Init_play ==
  /\ Start("play")
  /\ arg \in [channel : {0}, present : Pitches, future : PitchStreams]

\* The keys: a tonic (middle C, or the G sharp below it) and a scale that
\* Scale::from_intervals accepts.
Scales ==
  {sc \in {Scale_major, Scale_minor, Scale_pentatonic, <<12>>, <<13, -1>>, <<5, 0, 7>>} :
     Scale_from_intervals_asserts(sc)}
Steps == -MaxStep .. MaxStep
Init_key ==
  /\ op = "key" /\ res = <<>> /\ cx = Cx0 /\ pc = "keyed"
  /\ arg \in [key : {Key(Note(t), sc) : t \in {0, -4}, sc \in Scales}]

\* The labels: "x", "y", "next", "notes", 0 and 1, and two labels of 16
\* characters, "205614c54b0b5bbe" and "43096ac1ce810468".
LabelX == Str(<<120>>)
LabelY == Str(<<121>>)
LabelNext == Str(<<110, 101, 120, 116>>)
LabelNotes == Str(<<110, 111, 116, 101, 115>>)
LabelLongA == Str(<<50, 48, 53, 54, 49, 52, 99, 53, 52, 98, 48, 98, 53, 98, 98, 101>>)
LabelLongB == Str(<<52, 51, 48, 57, 54, 97, 99, 49, 99, 101, 56, 49, 48, 52, 54, 56>>)
Routes ==
  {LabelX, LabelY, LabelNext, LabelNotes, LabelLongA, LabelLongB,
   Int32(<<0, 0, 0, 0>>), Int32(<<1, 0, 0, 0>>)}

\* Seed::new("frosted glass"), the root seed of main, or Seed(0).
Init_fork ==
  /\ op = "fork" /\ res = <<>> /\ cx = Cx0 /\ pc = "seeded"
  /\ arg \in [seed : {Seed_new(Str(<<102, 114, 111, 115, 116, 101, 100, 32,
                                      103, 108, 97, 115, 115>>)),
                       Seed(<<0, 0, 0, 0, 0, 0, 0, 0>>)},
              depth : {0}]

\* a.merge(b)
merge ==
  /\ pc = "new" /\ op = "merge"
  /\ LET m == Stream_merge(Iter("A", arg.a), Iter("B", arg.b), cx)
     IN  res' = <<Result(m.it)>> /\ cx' = m.cx /\ pc' = Built(m.cx)
  /\ UNCHANGED <<op, arg>>

\* a.chain_at(t, b)
chain_at ==
  /\ pc = "new" /\ op = "chain_at"
  /\ res' = <<Result(Stream_chain_at(Iter("A", arg.a), arg.t, Iter("B", arg.b)))>>
  /\ pc' = "built"
  /\ UNCHANGED <<op, arg, cx>>

\* a.delay(t)
delay ==
  /\ pc = "new" /\ op = "delay"
  /\ res' = <<Result(Stream_delay(Iter("A", arg.a), arg.t))>>
  /\ pc' = "built"
  /\ UNCHANGED <<op, arg, cx>>

\* a.take(t) and a.drop(t), each on its own copy of a
take_drop ==
  /\ pc = "new" /\ op = "take_drop"
  /\ res' = <<Result(Stream_take(Iter("A", arg.a), arg.t)),
              Result(Stream_drop(Iter("B", arg.a), arg.t))>>
  /\ pc' = "built"
  /\ UNCHANGED <<op, arg, cx>>

\* a.repeat_every(t)
repeat_every ==
  /\ pc = "new" /\ op = "repeat_every"
  /\ LET m == Stream_repeat_every(Iter("A", arg.a), arg.t, cx)
     IN  res' = <<Result(m.it)>> /\ cx' = m.cx /\ pc' = Built(m.cx)
  /\ UNCHANGED <<op, arg>>

\* a.coalesce(reduce)
coalesce ==
  /\ pc = "new" /\ op = "coalesce"
  /\ LET m == Stream_coalesce(Iter("A", arg.a), arg.reduce, cx)
     IN  res' = <<Result(m.it)>> /\ cx' = m.cx /\ pc' = Built(m.cx)
  /\ UNCHANGED <<op, arg>>

\* lazy(|| a)
lazy ==
  /\ pc = "new" /\ op = "lazy"
  /\ res' = <<Result(Stream_lazy(ConstFn(Iter("A", arg.a))))>>
  /\ pc' = "built"
  /\ UNCHANGED <<op, arg, cx>>

\* Var::from_updates(v0, a).updates()
updates ==
  /\ pc = "new" /\ op = "updates"
  /\ res' = <<Result(Var_updates(Var_from_updates(arg.v0, Iter("A", arg.a))))>>
  /\ pc' = "built"
  /\ UNCHANGED <<op, arg, cx>>

InputName(k) == <<"P0", "P1", "P2", "P3">>[k]
\* The future of the Var of streams: its events carry streams.
FutureOf(ps, ds) ==
  Iter("F", [k \in 1 .. Len(ds) |-> <<ds[k], Iter(InputName(k + 1), ps[k + 1])>>])

\* Var::from_updates(ps[1], future).sequence()
sequence ==
  /\ pc = "new" /\ op = "sequence"
  /\ res' = <<Result(Var_sequence(
                Var_from_updates(Iter("P0", arg.ps[1]), FutureOf(arg.ps, arg.ds))))>>
  /\ pc' = "built"
  /\ UNCHANGED <<op, arg, cx>>

\* a.flatten()
flatten ==
  /\ pc = "new" /\ op = "flatten"
  /\ res' = <<Result(Stream_flatten(Iter("A", arg.a)))>>
  /\ pc' = "built"
  /\ UNCHANGED <<op, arg, cx>>

\* a.map(inc)
map ==
  /\ pc = "new" /\ op = "map"
  /\ res' = <<Result(Stream_map(Iter("A", arg.a), "inc"))>>
  /\ pc' = "built"
  /\ UNCHANGED <<op, arg, cx>>

\* Stream::merge_all(ss)
merge_all ==
  /\ pc = "new" /\ op = "merge_all"
  /\ LET names == <<"A", "B", "F">>
         m == Stream_merge_all([k \in 1 .. Len(arg.ss) |-> Iter(names[k], arg.ss[k])], cx)
     IN  res' = <<Result(m.it)>> /\ cx' = m.cx /\ pc' = Built(m.cx)
  /\ UNCHANGED <<op, arg>>

\* Var<Var<T>>::sequence(); the consumer then pulls the future of the Var built.
sequence_var ==
  /\ pc = "new" /\ op = "sequence_var"
  /\ LET inner == [k \in 1 .. Len(arg.vs) |->
                     IF k = 1 THEN Var_from_updates(arg.vs[1].v, Iter("V0", arg.vs[1].a))
                     ELSE Var_from_updates(arg.vs[2].v, Iter("V1", arg.vs[2].b))]
         outer == Var_from_updates(inner[1],
                    Iter("F", [k \in 1 .. Len(arg.ds) |-> <<arg.ds[k], inner[k + 1]>>]))
         m == Var_var_sequence(outer, cx)
     IN  /\ res' = <<[Result(m.var.future) EXCEPT !.out = <<<<ZERO, m.var.present>>>>]>>
         /\ cx' = m.cx /\ pc' = Built(m.cx)
  /\ UNCHANGED <<op, arg>>

\* Var::from_updates(v0, a).repeat_every(t).updates(), and beside it
\* Var::from_updates(v0, a).updates().repeat_every(t) on a copy of a.
var_repeat_every ==
  /\ pc = "new" /\ op = "var_repeat_every"
  /\ LET v == Var_repeat_every(Var_from_updates(arg.v0, Iter("A", arg.a)), arg.t, cx)
         m == Stream_repeat_every(
                Var_updates(Var_from_updates(arg.v0, Iter("B", arg.a))), arg.t, v.cx)
     IN  /\ res' = <<Result(Var_updates(v.var)), Result(m.it)>>
         /\ cx' = m.cx /\ pc' = Built(m.cx)
  /\ UNCHANGED <<op, arg>>

\* Var<Var<T>>::sequence() of a Var of Vars built by Var's constructors; the
\* consumer then pulls the future of the Var returned.
var_var ==
  /\ pc = "new" /\ op = "var_var"
  /\ LET m == Var_var_built(arg, Var_build(arg.kind, 1, Iter("V0", arg.a), arg.t, cx))
     IN  /\ res' = <<[Result(m.var.future) EXCEPT !.out = <<<<ZERO, m.var.present>>>>]>>
         /\ cx' = m.cx /\ pc' = Built(m.cx)
  /\ UNCHANGED <<op, arg>>

\* play(channel, Var::from_updates(present, future))
play_voice ==
  /\ pc = "new" /\ op = "play"
  /\ LET m == play(arg.channel, Var_from_updates(arg.present, Iter("A", arg.future)), cx)
     IN  res' = <<Result(m.it)>> /\ cx' = m.cx /\ pc' = Built(m.cx)
  /\ UNCHANGED <<op, arg>>

\* key.at(k): res records the call and the NoteInKey returned.
at ==
  /\ op = "key" /\ pc = "keyed"
  /\ \E k \in Steps :
       res' = <<[call |-> "at", k |-> k, j |-> 0, out |-> Key_at(arg.key, k)]>>
  /\ UNCHANGED <<op, arg, cx, pc>>

\* nk.offset(j) on the NoteInKey held, which is at k + j steps.
offset ==
  /\ op = "key" /\ pc = "keyed" /\ res # <<>> /\ res[1].call \in {"at", "offset"}
  /\ \E j \in Steps :
       /\ res[1].k + res[1].j + j \in Steps
       /\ res' = <<[call |-> "offset", k |-> res[1].k + res[1].j, j |-> j,
                    out |-> NoteInKey_offset(res[1].out, j)]>>
  /\ UNCHANGED <<op, arg, cx, pc>>

\* key.notes_ascending().take(k) and key.notes_descending().take(k)
notes_ascending ==
  /\ op = "key" /\ pc = "keyed"
  /\ \E k \in 0 .. MaxStep :
       res' = <<[call |-> "notes_ascending", k |-> k, j |-> 0,
                 out |-> Key_notes_ascending(arg.key, k)]>>
  /\ UNCHANGED <<op, arg, cx, pc>>

notes_descending ==
  /\ op = "key" /\ pc = "keyed"
  /\ \E k \in 0 .. MaxStep :
       res' = <<[call |-> "notes_descending", k |-> k, j |-> 0,
                 out |-> Key_notes_descending(arg.key, k)]>>
  /\ UNCHANGED <<op, arg, cx, pc>>

\* seed.fork(route): res records the seed before the call, the label, the
\* seed after the call (fork takes &self) and the child returned.
fork ==
  /\ op = "fork" /\ pc = "seeded" /\ Len(res) < MaxForks
  /\ \E route \in Routes :
       res' = Append(res, [parent |-> arg.seed, route |-> route, after |-> arg.seed,
                           child |-> Seed_fork(arg.seed, route)])
  /\ UNCHANGED <<op, arg, cx, pc>>

\* *seed = seed.fork(..): a child takes the place of its parent.
descend ==
  /\ op = "fork" /\ pc = "seeded" /\ res # <<>> /\ arg.depth < MaxDepth
  /\ arg' = [seed |-> res[Len(res)].child, depth |-> arg.depth + 1]
  /\ res' = <<>>
  /\ UNCHANGED <<op, cx, pc>>

\* The consumer pulls the next event of result i.  A call that panics or
\* does not return yields nothing and ends the run.
next ==
  /\ pc = "built"
  /\ \E i \in DOMAIN res :
       /\ res[i].pulls < MaxPulls
       /\ LET r == Stream_next(res[i].it, [cx EXCEPT !.fuel = MaxForce])
              ok == ~Halted(r.cx)
          IN  /\ res' = [res EXCEPT ![i] =
                           [it |-> r.it,
                            out |-> IF ok /\ IsSome(r.item)
                                    THEN Append(@.out, r.item[1]) ELSE @.out,
                            ended |-> @.ended \/ (ok /\ IsNone(r.item)),
                            pulls |-> @.pulls + 1]]
              /\ cx' = r.cx
              /\ pc' = Built(r.cx)
  /\ UNCHANGED <<op, arg>>

Next_merge == merge \/ next
Spec_merge == Init_merge /\ [][Next_merge]_vars

Next_chain_at == chain_at \/ delay \/ next
Spec_chain_at == (Init_chain_at \/ Init_delay) /\ [][Next_chain_at]_vars

Next_take_drop == take_drop \/ next
Spec_take_drop == Init_take_drop /\ [][Next_take_drop]_vars

Next_repeat_every == repeat_every \/ next
Spec_repeat_every == Init_repeat_every /\ [][Next_repeat_every]_vars

Next_coalesce == coalesce \/ next
Spec_coalesce == Init_coalesce /\ [][Next_coalesce]_vars

Next_lazy == lazy \/ next
Spec_lazy == Init_lazy /\ [][Next_lazy]_vars

Next_updates == updates \/ next
Spec_updates == Init_updates /\ [][Next_updates]_vars

Next_sequence == sequence \/ next
Spec_sequence == Init_sequence /\ [][Next_sequence]_vars

Next_var_repeat_every == var_repeat_every \/ next
Spec_var_repeat_every == Init_var_repeat_every /\ [][Next_var_repeat_every]_vars

Next_merge_all == merge_all \/ next
Spec_merge_all == Init_merge_all /\ [][Next_merge_all]_vars

Next_var_var == var_var \/ next
Spec_var_var == Init_var_var /\ [][Next_var_var]_vars

Next_flatten == flatten \/ next
Spec_flatten == Init_flatten /\ [][Next_flatten]_vars

Next_play == play_voice \/ next
Spec_play == Init_play /\ [][Next_play]_vars

Next_key == at \/ offset \/ notes_ascending \/ notes_descending
Spec_key == Init_key /\ [][Next_key]_vars

Next_fork == fork \/ descend
Spec_fork == Init_fork /\ [][Next_fork]_vars

\* Every combinator.
Init ==
  \/ Init_merge \/ Init_chain_at \/ Init_delay \/ Init_take_drop
  \/ Init_repeat_every \/ Init_coalesce \/ Init_lazy \/ Init_updates
  \/ Init_sequence \/ Init_flatten \/ Init_map \/ Init_merge_all
  \/ Init_sequence_var \/ Init_var_repeat_every
Next ==
  \/ merge \/ chain_at \/ delay \/ take_drop \/ repeat_every \/ coalesce
  \/ lazy \/ updates \/ sequence \/ flatten \/ map \/ merge_all
  \/ sequence_var \/ var_repeat_every \/ next
Spec == Init /\ [][Next]_vars

-----------------------------------------------------------------------------
(* Absolute time: the running sum of the delays. *)
RECURSIVE SumDelays(_, _)
SumDelays(s, i) == IF i = 0 THEN 0 ELSE SumDelays(s, i - 1) + s[i][1]

\* The events of s as <<absolute time, value>>.
AbsOf(s) == [i \in 1 .. Len(s) |-> <<SumDelays(s, i), s[i][2]>>]
\* The absolute events x, each moved later by t.
Shift(x, t) == [i \in 1 .. Len(x) |-> <<x[i][1] + t, x[i][2]>>]
NonDecreasing(x) == \A i \in 1 .. Len(x) - 1 : x[i][1] <= x[i + 1][1]
Range(x) == {x[i] : i \in 1 .. Len(x)}
Finished(i) == pc = "built" /\ i \in DOMAIN res /\ res[i].ended

-----------------------------------------------------------------------------
(* C1: a.merge(b), pulled to its end, has yielded every event of a and     *)
(* every event of b exactly once, each at the absolute time it has in its  *)
(* own stream and in its stream's order, in non-decreasing absolute time,  *)
(* and with a's event first whenever an event of a and an event of b have  *)
(* the same absolute time; the specification's example yields              *)
(* [(1,a),(1,x),(1,y),(1,b)].                                              *)
FromA(e) == e[2] < 20
FromB(e) == e[2] > 20

C1_MergeIsStableInterleave ==
  (op = "merge" /\ Finished(1)) =>
    LET x == AbsOf(res[1].out)
    IN  /\ SelectSeq(x, FromA) = AbsOf(arg.a)
        /\ SelectSeq(x, FromB) = AbsOf(arg.b)
        /\ NonDecreasing(x)
        /\ \A i, j \in 1 .. Len(x) :
             (i < j /\ x[i][1] = x[j][1] /\ FromB(x[i])) => ~FromA(x[j])
        /\ (arg.a = MergeExampleA /\ arg.b = MergeExampleB) =>
             res[1].out = <<<<1, 11>>, <<1, 21>>, <<1, 22>>, <<1, 12>>>>

\* A finished merge of two streams of two events in which an event of a and
\* an event of b fall at the same absolute time.
C1_Witness ==
  /\ op = "merge" /\ Finished(1)
  /\ Len(arg.a) = 2 /\ Len(arg.b) = 2
  /\ \E i \in 1 .. 2, j \in 1 .. 2 : AbsOf(arg.a)[i][1] = AbsOf(arg.b)[j][1]
  /\ Len(res[1].out) = 4

-----------------------------------------------------------------------------
(* C2: the events of s.take(d), with the events of s.drop(d) moved later   *)
(* by d, are the events of s at their absolute times: every event of s is  *)
(* in exactly one of the two results, an event at exactly d included.      *)
C2_TakeDropComplementary ==
  (op = "take_drop" /\ Finished(1) /\ Finished(2)) =>
    LET taken == Range(AbsOf(res[1].out))
        dropped == Range(Shift(AbsOf(res[2].out), arg.t))
    IN  /\ taken \cup dropped = Range(AbsOf(arg.a))
        /\ taken \cap dropped = {}


(* C2, amended: the events of s.take(d), with the events of s.drop(d)      *)
(* moved later by d, are the events of s at their absolute times, none     *)
(* lost: an event whose absolute time is not d is in exactly one of the    *)
(* two results, and an event whose absolute time is exactly d is in both.  *)
C2_TakeDropOverlapAtBoundary ==
  (op = "take_drop" /\ Finished(1) /\ Finished(2)) =>
    LET taken == Range(AbsOf(res[1].out))
        dropped == Range(Shift(AbsOf(res[2].out), arg.t))
        boundary == {e \in Range(AbsOf(arg.a)) : e[1] = arg.t}
    IN  /\ taken \cup dropped = Range(AbsOf(arg.a))
        /\ taken \cap dropped = boundary
        /\ Len(res[1].out) + Len(res[2].out) = Len(arg.a) + Cardinality(boundary)

\* take and drop, both finished, of a stream with an event before d, an
\* event at exactly d and an event after d.
C2_Witness ==
  /\ op = "take_drop" /\ Finished(1) /\ Finished(2)
  /\ \E i, j, k \in 1 .. Len(arg.a) :
       /\ AbsOf(arg.a)[i][1] < arg.t
       /\ AbsOf(arg.a)[j][1] = arg.t
       /\ AbsOf(arg.a)[k][1] > arg.t
  /\ Len(res[1].out) + Len(res[2].out) > Len(arg.a)

-----------------------------------------------------------------------------
(* C3: a.chain_at(t, b), pulled to its end, has yielded the events of a    *)
(* whose absolute time is at most t, unchanged, then every event of b at t *)
(* plus its absolute time in b, and nothing else: the event of a that      *)
(* crosses t and all after it are dropped.  With a = [(5,e1)] and t = 3,   *)
(* e1 is not yielded and b's first delay is 3 longer.  a.delay(t) yields   *)
(* every event of a, t later.                                              *)
AtMost(t, x) == SelectSeq(x, LAMBDA e : e[1] <= t)

C3_ChainAtSplices ==
  /\ (op = "chain_at" /\ Finished(1)) =>
       /\ AbsOf(res[1].out) = AtMost(arg.t, AbsOf(arg.a)) \o Shift(AbsOf(arg.b), arg.t)
       /\ (arg.a = ChainAtExampleA /\ arg.t = 3 /\ arg.b # <<>>) =>
            res[1].out = <<<<arg.b[1][1] + 3, arg.b[1][2]>>>> \o Tail(arg.b)
  /\ (op = "delay" /\ Finished(1)) =>
       AbsOf(res[1].out) = Shift(AbsOf(arg.a), arg.t)

\* A finished chain_at that kept an event of a, dropped a later one that
\* crossed the threshold, and went on to b before the threshold was used up.
C3_Witness ==
  /\ op = "chain_at" /\ Finished(1)
  /\ Len(arg.a) = 2 /\ Len(arg.b) = 2
  /\ arg.a[1][1] < arg.t /\ arg.a[1][1] + arg.a[2][1] > arg.t
  /\ Len(res[1].out) = 3

-----------------------------------------------------------------------------
(* C4: the stream of a.repeat_every(T) is periodic: for every n, the       *)
(* events with absolute time in [n*T, (n+1)*T) have the values, order and  *)
(* offsets from n*T of the events in [0, T), also when a has an event at   *)
(* absolute time exactly T.  Period n is compared once the stream has      *)
(* yielded an event at or after (n+1)*T.                                   *)
Period(x, n, T) ==
  Shift(SelectSeq(x, LAMBDA e : n * T <= e[1] /\ e[1] < (n + 1) * T), 0 - n * T)

C4_RepeatEveryPeriodic ==
  (op = "repeat_every" /\ pc = "built" /\ res[1].out # <<>>) =>
    LET x == AbsOf(res[1].out)
        last == x[Len(x)][1]
    IN  \A n \in 1 .. MaxPulls :
          ((n + 1) * arg.t <= last) =>
            Period(x, n, arg.t) = Period(x, 0, arg.t)


(* C4, amended: the stream of a.repeat_every(T) replays the snapshot       *)
(* a.take(T) every T: its m-th event is the snapshot's event number        *)
(* ((m-1) mod L) + 1, L the snapshot's length, at n*T plus that event's    *)
(* time in the snapshot, n = (m-1) div L.  So the events in [n*T, (n+1)*T) *)
(* are those of period 0 when a has no event at absolute time exactly T;   *)
(* an event at exactly T is yielded at (n+1)*T, before replay n+1, and so  *)
(* is in every period but period 0.                                        *)
Snapshot == AtMost(arg.t, AbsOf(arg.a))
Replayed(m) ==
  LET n == (m - 1) \div Len(Snapshot)
      e == Snapshot[((m - 1) % Len(Snapshot)) + 1]
  IN  <<n * arg.t + e[1], e[2]>>

C4_RepeatEveryReplaysSnapshot ==
  (op = "repeat_every" /\ pc = "built") =>
    LET x == AbsOf(res[1].out)
    IN  /\ \A m \in 1 .. Len(x) : x[m] = Replayed(m)
        /\ Snapshot # <<>> => (Len(x) = res[1].pulls /\ ~res[1].ended)
        /\ (\A e \in Range(Snapshot) : e[1] # arg.t) => C4_RepeatEveryPeriodic

\* Two replays and more of a snapshot with an event before T and an event
\* at exactly T.
C4_Witness ==
  /\ op = "repeat_every" /\ pc = "built"
  /\ arg.t > 0 /\ Len(Snapshot) = 2
  /\ Snapshot[1][1] < arg.t /\ Snapshot[2][1] = arg.t
  /\ Len(res[1].out) > 4

-----------------------------------------------------------------------------
(* C5: coalesce(reduce) yields, for every maximal run of one event and the *)
(* delay-0 events that follow it, one event with the delay of the run's    *)
(* first member and the left fold of reduce over the run's values; no      *)
(* event it yields follows another at delay 0.  [(2,1),(0,2),(0,3),(4,9)]  *)
(* with sum yields [(2,6),(4,9)].                                          *)
RunStarts(s) == {i \in 1 .. Len(s) : i = 1 \/ s[i][1] # 0}
RunEnd(s, i) ==
  CHOOSE j \in i .. Len(s) :
    /\ \A m \in i + 1 .. j : s[m][1] = 0
    /\ (j = Len(s) \/ s[j + 1][1] # 0)
RECURSIVE FoldLeft(_, _, _, _)
FoldLeft(f, s, i, j) == IF j = i THEN s[i][2] ELSE Reduce(f, FoldLeft(f, s, i, j - 1), s[j][2])
\* The starts of the runs of s, in order.
RECURSIVE StartsFrom(_, _)
StartsFrom(s, i) ==
  IF i > Len(s) THEN <<>>
  ELSE IF i \in RunStarts(s) THEN <<i>> \o StartsFrom(s, i + 1)
  ELSE StartsFrom(s, i + 1)

C5_CoalesceFoldsRuns ==
  (op = "coalesce" /\ Finished(1)) =>
    LET s == arg.a
        starts == StartsFrom(s, 1)
        out == res[1].out
    IN  /\ Len(out) = Len(starts)
        /\ \A n \in 1 .. Len(starts) :
             out[n] = <<s[starts[n]][1],
                        FoldLeft(arg.reduce, s, starts[n], RunEnd(s, starts[n]))>>
        /\ \A n \in 2 .. Len(out) : out[n][1] # 0
        /\ (s = CoalesceExample /\ arg.reduce = "sum") => out = <<<<2, 6>>, <<4, 9>>>>

\* A finished coalesce of a stream with a run of three events and a later
\* event of its own.
C5_Witness ==
  /\ op = "coalesce" /\ Finished(1)
  /\ Len(arg.a) = 4
  /\ arg.a[1][1] # 0 /\ arg.a[2][1] = 0 /\ arg.a[3][1] = 0 /\ arg.a[4][1] # 0
  /\ Len(res[1].out) = 2

-----------------------------------------------------------------------------
(* C6: with inputs whose delays are all non-negative, every delay a        *)
(* combinator yields is non-negative, and no subtraction of durations in   *)
(* ChainAt, Drop or Merge underflows (which panics).                       *)
C6_DelaysNonNegative ==
  /\ pc # "panic"
  /\ cx.halt # "panic"
  /\ \A i \in DOMAIN res : \A n \in 1 .. Len(res[i].out) : res[i].out[n][1] >= 0

\* A finished merge of inputs without a zero delay that yielded a zero
\* delay: a head's delay was reduced to nothing by a subtraction.
C6_Witness ==
  /\ op = "merge" /\ Finished(1)
  /\ \A n \in 1 .. Len(arg.a) : arg.a[n][1] > 0
  /\ \A n \in 1 .. Len(arg.b) : arg.b[n][1] > 0
  /\ \E n \in 1 .. Len(res[1].out) : res[1].out[n][1] = 0

-----------------------------------------------------------------------------
(* C7: constructing a combinator's result pulls no event from any input    *)
(* and runs no user function.                                              *)
Unpulled == \A i \in DOMAIN res : res[i].pulls = 0
PulledIs(f) == \A i \in Inputs : cx.pulled[i] = IF i \in DOMAIN f THEN f[i] ELSE 0

C7_ConstructionPullsNothing ==
  (pc = "built" /\ Unpulled) => (PulledIs(<<>>) /\ cx.calls = 0)

(* C7, amended: constructing chain_at, take, drop, delay, map, flatten,    *)
(* lazy, Var::updates or Var<Stream>::sequence pulls no event and runs no  *)
(* function.  Constructing merge pulls one event from each operand;        *)
(* coalesce pulls one event from its input; repeat_every pulls its source  *)
(* up to and including the first event that crosses T, or to its end;      *)
(* neither runs a function.  Var<Var>::sequence runs the mapped function   *)
(* on the present, calls the closure of the lazy sequence, and pulls one   *)
(* event from the outer future and none from the inner futures.            *)
C7_ConstructionPulls ==
  (pc = "built" /\ Unpulled) =>
    CASE op \in {"chain_at", "delay", "take_drop", "map", "flatten", "lazy",
                 "updates", "sequence"} ->
           PulledIs(<<>>) /\ cx.calls = 0
      [] op = "merge" -> PulledIs([i \in {"A", "B"} |-> 1]) /\ cx.calls = 0
      [] op = "coalesce" -> PulledIs([i \in {"A"} |-> 1]) /\ cx.calls = 0
      [] op = "repeat_every" ->
           /\ PulledIs([i \in {"A"} |-> Len(AtMost(arg.t, AbsOf(arg.a))) + 1])
           /\ cx.calls = 0
      [] op = "sequence_var" ->
           /\ PulledIs([i \in {"F"} |-> 1])
           /\ cx.calls = 2 + Len(arg.ds)
      [] OTHER -> TRUE

\* A repeat_every just built from a source with an event that crosses T:
\* the source was pulled, but not to its end.
C7_Witness ==
  /\ op = "repeat_every" /\ pc = "built" /\ Unpulled
  /\ cx.pulled["A"] = 2 /\ Len(arg.a) = 3

-----------------------------------------------------------------------------
(* C8: the factory of lazy(factory) is not called at construction, is      *)
(* called once at the first pull and never again; every pull is forwarded  *)
(* to the stream it returned, so the lazy stream yields that stream's      *)
(* events.                                                                 *)
Min(a, b) == IF a <= b THEN a ELSE b

C8_LazyCallsFactoryOnce ==
  (op = "lazy" /\ pc = "built") =>
    /\ res[1].pulls = 0 => (cx.calls = 0 /\ cx.pulled["A"] = 0)
    /\ res[1].pulls > 0 => cx.calls = 1
    /\ cx.pulled["A"] = res[1].pulls
    /\ res[1].out = SubSeq(arg.a, 1, Min(res[1].pulls, Len(arg.a)))

\* A lazy stream pulled three times, past the first pull.
C8_Witness ==
  /\ op = "lazy" /\ pc = "built"
  /\ res[1].pulls = 3 /\ Len(res[1].out) = 3 /\ cx.calls = 1

-----------------------------------------------------------------------------
(* C9: updates() of a Var with present v0 and future F yields (0, v0) and  *)
(* then F's events, delays and values unchanged; from_updates(v0,          *)
(* [(3,v1)]).updates() yields [(0,v0),(3,v1)].                             *)
C9_UpdatesPrependsPresent ==
  (op = "updates" /\ Finished(1)) =>
    /\ res[1].out = <<<<0, arg.v0>>>> \o arg.a
    /\ arg.a = UpdatesExample => res[1].out = <<<<0, arg.v0>>, <<3, 11>>>>

\* The finished updates() of the specification's example.
C9_Witness ==
  /\ op = "updates" /\ Finished(1)
  /\ arg.a = UpdatesExample /\ Len(res[1].out) = 2

-----------------------------------------------------------------------------
(* C10: sequence() of a Var of streams with present P0 and future          *)
(* [(d1,P1),(d2,P2),...] yields, for k = 0, 1, ... in this order, the      *)
(* events of Pk whose absolute time within Pk is at most d(k+1) (all of    *)
(* them for the last Pk), each at Sk = d1 + ... + dk plus its time within  *)
(* Pk, and nothing else.                                                   *)
RECURSIVE SwitchTime(_, _)
SwitchTime(ds, k) == IF k = 0 THEN 0 ELSE SwitchTime(ds, k - 1) + ds[k]

\* What stream k (the present is stream 0) contributes.
Played(ps, ds, k) ==
  Shift(IF k < Len(ds) THEN AtMost(ds[k + 1], AbsOf(ps[k + 1])) ELSE AbsOf(ps[k + 1]),
        SwitchTime(ds, k))

RECURSIVE PlayedUpTo(_, _, _)
PlayedUpTo(ps, ds, k) ==
  IF k < 0 THEN <<>> ELSE PlayedUpTo(ps, ds, k - 1) \o Played(ps, ds, k)

C10_SequenceSwitches ==
  (op = "sequence" /\ Finished(1)) =>
    AbsOf(res[1].out) = PlayedUpTo(arg.ps, arg.ds, Len(arg.ds))

\* A finished sequence over three streams and two switches: the first stream
\* loses its second event to the first switch, the second stream loses its
\* only event to the second switch, and the last stream plays in full.
C10_Witness ==
  /\ op = "sequence" /\ Finished(1)
  /\ Len(arg.ds) = 2
  /\ Len(arg.ps[1]) = 2 /\ Len(Played(arg.ps, arg.ds, 0)) = 1
  /\ Len(arg.ps[2]) = 1 /\ Len(Played(arg.ps, arg.ds, 1)) = 0
  /\ Len(arg.ps[3]) = 2 /\ Len(res[1].out) = 3

-----------------------------------------------------------------------------
(* C11: v.repeat_every(T), observed with updates(), yields the events of   *)
(* v.updates().repeat_every(T): of the two streams, pulled any number of   *)
(* times each, one's output is a prefix of the other's, so the present is  *)
(* yielded once at time 0.                                                 *)
IsPrefix(x, y) == Len(x) <= Len(y) /\ x = SubSeq(y, 1, Len(x))

C11_VarRepeatEveryIsStreamRepeatEvery ==
  (op = "var_repeat_every" /\ pc = "built") =>
    \/ IsPrefix(res[1].out, res[2].out)
    \/ IsPrefix(res[2].out, res[1].out)

-----------------------------------------------------------------------------
(* C12: s.drop(d) yields the events of s whose absolute time is at least   *)
(* d, in order, each at its absolute time less d, and no event whose       *)
(* absolute time is less than d; the delays after the first surviving      *)
(* event are those of s.                                                   *)
AtLeast(t, x) == SelectSeq(x, LAMBDA e : e[1] >= t)

C12_DropKeepsFromDuration ==
  (op = "take_drop" /\ pc = "built") =>
    LET kept == AtLeast(arg.t, AbsOf(arg.a))
        out == res[2].out
        gone == Len(arg.a) - Len(kept)
    IN  /\ IsPrefix(AbsOf(out), Shift(kept, 0 - arg.t))
        /\ res[2].ended => Len(out) = Len(kept)
        /\ \A n \in 2 .. Len(out) : out[n][1] = arg.a[gone + n][1]

\* A finished drop that discarded an event, reduced the delay of the first
\* survivor by what was left of d, and passed a later event on.
C12_Witness ==
  /\ op = "take_drop" /\ Finished(2)
  /\ Len(arg.a) = 3 /\ Len(res[2].out) = 2
  /\ 0 < arg.a[1][1] /\ arg.a[1][1] < arg.t
  /\ 0 < res[2].out[1][1] /\ res[2].out[1][1] < arg.a[2][1]
  /\ res[2].out[2][1] > 0

-----------------------------------------------------------------------------
(* C13: s.take(d) yields the longest prefix of s whose cumulative delay is *)
(* at most d, delays and values unchanged, so the delays it yields sum to  *)
(* at most d; it pulls s no further than the first event that crosses d,   *)
(* and after that event it yields nothing, however often it is pulled.     *)
C13_TakeIsLongestPrefix ==
  (op = "take_drop" /\ pc = "built") =>
    LET n == Len(AtMost(arg.t, AbsOf(arg.a)))
        out == res[1].out
    IN  /\ IsPrefix(out, SubSeq(arg.a, 1, n))
        /\ res[1].ended => out = SubSeq(arg.a, 1, n)
        /\ SumDelays(out, Len(out)) <= arg.t
        /\ res[1].pulls > n => res[1].ended
        /\ cx.pulled["A"] = Min(res[1].pulls, n + 1)

\* A take pulled again after it ended at an event that crossed d, with a
\* later event of s that would fit in what was left of d.
C13_Witness ==
  /\ op = "take_drop" /\ Finished(1)
  /\ Len(arg.a) = 3 /\ Len(res[1].out) = 1
  /\ arg.a[1][1] + arg.a[2][1] > arg.t
  /\ arg.a[3][1] <= arg.t - arg.a[1][1]
  /\ res[1].pulls >= 4

-----------------------------------------------------------------------------
(* C14: merge_all of [s1, ..., sn], pulled to its end, has yielded every   *)
(* event of every stream once, at the absolute time and in the order it    *)
(* has in its own stream, in non-decreasing absolute time, and events of   *)
(* different streams at the same absolute time in collection order.        *)
(* merge_all of no stream is empty; merge_all of one stream pulls nothing  *)
(* when it is built and yields that stream's events unchanged.             *)
StreamOf(e) == e[2] \div 10

C14_MergeAllIsLeftFold ==
  /\ (op = "merge_all" /\ Finished(1)) =>
       LET x == AbsOf(res[1].out)
       IN  /\ \A k \in 1 .. Len(arg.ss) :
                SelectSeq(x, LAMBDA e : StreamOf(e) = k) = AbsOf(arg.ss[k])
           /\ Len(x) = SumDelays([k \in 1 .. Len(arg.ss) |-> <<Len(arg.ss[k])>>],
                                  Len(arg.ss))
           /\ NonDecreasing(x)
           /\ \A i, j \in 1 .. Len(x) :
                (i < j /\ x[i][1] = x[j][1]) => StreamOf(x[i]) <= StreamOf(x[j])
           /\ Len(arg.ss) = 1 => res[1].out = arg.ss[1]
  /\ (op = "merge_all" /\ pc = "built" /\ Len(arg.ss) = 0) =>
       (res[1].out = <<>> /\ (res[1].pulls > 0 => res[1].ended))
  /\ (op = "merge_all" /\ pc = "built" /\ Len(arg.ss) = 1) =>
       (IsPrefix(res[1].out, arg.ss[1]) /\ cx.pulled["A"] = res[1].pulls)

\* A finished merge_all of three streams with an event of each at the same
\* absolute time.
C14_Witness ==
  /\ op = "merge_all" /\ Finished(1)
  /\ Len(arg.ss) = 3
  /\ \E i \in 1 .. Len(arg.ss[1]), t \in 1 .. 2 * MaxDelay :
       /\ AbsOf(arg.ss[1])[i][1] = t
       /\ Len(arg.ss[2]) = 1 /\ arg.ss[2][1][1] = t
       /\ Len(arg.ss[3]) = 1 /\ arg.ss[3][1][1] = t
  /\ Len(res[1].out) = Len(arg.ss[1]) + 2

-----------------------------------------------------------------------------
(* C15: fork is a function of the parent and the label: two calls with the *)
(* same parent and label return the same child, the parent is as it was    *)
(* after the call and nothing else is read or written, and two calls on    *)
(* the same parent with different labels return different children.        *)
SameParent(i, j) == res[i].parent = res[j].parent

C15_ForkIsInjectivePureFunction ==
  op = "fork" =>
    /\ cx = Cx0
    /\ \A i \in DOMAIN res : res[i].after = res[i].parent
    /\ \A i, j \in DOMAIN res :
         /\ (SameParent(i, j) /\ res[i].route = res[j].route)
              => res[i].child = res[j].child
         /\ (SameParent(i, j) /\ res[i].route # res[j].route)
              => res[i].child # res[j].child

(* C15, amended: fork is a function of the parent and the label: two calls *)
(* with the same parent and label return the same child, the parent is as  *)
(* it was after the call and nothing else is read or written.  Two labels  *)
(* that feed the hasher equally many bytes, all the same but one, give     *)
(* different children of the same parent ("x" and "y" do); two different   *)
(* labels in general may give the same child.                              *)
DifferInOneByte(a, b) ==
  /\ Len(a) = Len(b)
  /\ Cardinality({n \in 1 .. Len(a) : a[n] # b[n]}) = 1

C15_ForkIsPureFunction ==
  op = "fork" =>
    /\ cx = Cx0
    /\ \A i \in DOMAIN res : res[i].after = res[i].parent
    /\ \A i, j \in DOMAIN res :
         /\ (SameParent(i, j) /\ res[i].route = res[j].route)
              => res[i].child = res[j].child
         /\ (SameParent(i, j)
             /\ DifferInOneByte(HashBytes(res[i].route), HashBytes(res[j].route)))
              => res[i].child # res[j].child

\* The root seed of main forked with "x" and then with "y".
C15_Witness ==
  /\ op = "fork" /\ Len(res) = 2
  /\ arg.seed = <<187, 183, 20, 57, 125, 50, 138, 239>>
  /\ res[1].route = LabelX /\ res[2].route = LabelY
  /\ res[1].child = <<53, 172, 208, 97, 48, 176, 159, 65>>
  /\ res[2].child = <<12, 149, 212, 97, 48, 176, 163, 65>>

-----------------------------------------------------------------------------
(* C16: every pull of the stream of a.repeat_every(T) returns, an event or *)
(* the end, also when the snapshot a.take(T) is empty.                     *)
C16_RepeatEveryPullReturns ==
  op = "repeat_every" => (pc # "diverge" /\ cx.halt # "diverge")

-----------------------------------------------------------------------------
(* C17: in every state of a merge, the events taken from an input are the  *)
(* events of that input already yielded and one more, the pending head (or *)
(* all of the input's events once it has ended).  So an input gives up an  *)
(* event only when the merge is built or when its own pending event is     *)
(* yielded, never because of a tie or of a smaller event on the other      *)
(* side.                                                                   *)
Taken(id, input) == Min(cx.pulled[id], Len(input))

C17_MergeLooksOneAhead ==
  (op = "merge" /\ pc = "built") =>
    LET outA == Len(SelectSeq(res[1].out, FromA))
        outB == Len(SelectSeq(res[1].out, FromB))
    IN  /\ Taken("A", arg.a) = Min(outA + 1, Len(arg.a))
        /\ Taken("B", arg.b) = Min(outB + 1, Len(arg.b))
        /\ (outA < Len(arg.a)) => cx.pulled["A"] = outA + 1
        /\ (outB < Len(arg.b)) => cx.pulled["B"] = outB + 1

\* A merge that has yielded the left event of a tie: the left input has
\* given its next event, the right input still only its first.
C17_Witness ==
  /\ op = "merge" /\ pc = "built"
  /\ Len(arg.a) = 2 /\ Len(arg.b) = 2
  /\ arg.a[1][1] = arg.b[1][1]
  /\ Len(res[1].out) = 1 /\ FromA(res[1].out[1])
  /\ cx.pulled["A"] = 2 /\ cx.pulled["B"] = 1

-----------------------------------------------------------------------------
(* C18: the ChainAt and Lazy layers that one pull on the stream of         *)
(* repeat_every, or of Var<Stream>::sequence, passes through are at most   *)
(* those of one period (a Lazy, its ChainAt and the Lazy of what follows), *)
(* however many periods or switches have gone by.                          *)
Max(a, b) == IF a >= b THEN a ELSE b

\* The deepest chain of ChainAt and Lazy iterators, each the source of
\* the one before, that a call of it.next() can go down.
RECURSIVE Layers(_)
Layers(it) ==
  CASE it.k = "Lazy" -> 1 + (IF it.v = "After" THEN Layers(it.iter) ELSE 0)
    [] it.k = "ChainAt" -> 1 + Max(Layers(it.source1), Layers(it.source2))
    [] it.k = "Chain" -> Max(IF IsSome(it.a) THEN Layers(it.a[1]) ELSE 0, Layers(it.b))
    [] it.k \in {"Map", "Flatten", "Coalesce", "Drop"} -> Layers(it.source)
    [] it.k = "Merge" -> Max(Layers(it.source1), Layers(it.source2))
    [] OTHER -> 0

C18_NestingStaysBounded ==
  (op \in {"repeat_every", "sequence"} /\ pc = "built") => Layers(res[1].it) <= 3

-----------------------------------------------------------------------------
(* C19: Var<Var<T>>::sequence() of a Var of Vars built by constant,        *)
(* from_updates, map and repeat_every never reaches unreachable!(): the    *)
(* first event of the flattened stream has delay 0, and the present of the *)
(* Var returned is the present of the outer Var's present inner Var.       *)
InnerPresent ==
  (IF arg.kind = "map" THEN 101 ELSE 1) + (IF arg.mapped THEN 100 ELSE 0)

C19_VarVarSequenceNeverPanics ==
  (op = "var_var" /\ pc # "new") =>
    /\ pc = "built"
    /\ res[1].out[1] = <<ZERO, InnerPresent>>

\* The outer Var switches at delay 0 to a second inner Var, both inner
\* Vars repeat, and the consumer has pulled the future.
C19_Witness ==
  /\ op = "var_var" /\ pc = "built"
  /\ arg.kind = "repeat_every" /\ arg.n = 1 /\ arg.d = 0 /\ arg.mapped
  /\ Len(res[1].out) > 2

-----------------------------------------------------------------------------
(* C20: every value that flatten() yields comes at the absolute time of    *)
(* the batch that held it, the values of a batch in their order, whether   *)
(* or not some batch of the stream is empty.                               *)
\* The values of the first i batches of s, each at the absolute time of
\* its batch.
RECURSIVE Scheduled(_, _)
Scheduled(s, i) ==
  IF i = 0 THEN <<>>
  ELSE Scheduled(s, i - 1) \o
       [j \in 1 .. Len(s[i][2]) |-> <<SumDelays(s, i), s[i][2][j]>>]

C20_FlattenKeepsSchedule ==
  (op = "flatten" /\ pc = "built") =>
    /\ IsPrefix(AbsOf(res[1].out), Scheduled(arg.a, Len(arg.a)))
    /\ res[1].ended => AbsOf(res[1].out) = Scheduled(arg.a, Len(arg.a))

-----------------------------------------------------------------------------
(* C21: the messages of play(channel, pitch) start with AllSoundOff; after *)
(* it a NoteOn comes only while nothing sounds, a NoteOff names the key    *)
(* that sounds, and when the stream has ended nothing sounds.              *)
Messages == [i \in 1 .. Len(res[1].out) |-> res[1].out[i][2]]

\* The key left sounding by the first i messages, if any.
RECURSIVE Sounding(_, _)
Sounding(msgs, i) ==
  IF i = 0 THEN None
  ELSE CASE msgs[i].m = "NoteOn" -> Some(msgs[i].key)
         [] msgs[i].m = "NoteOff" ->
              IF Sounding(msgs, i - 1) = Some(msgs[i].key) THEN None
              ELSE Sounding(msgs, i - 1)
         [] OTHER -> None

-----------------------------------------------------------------------------
(* C22: in a key of n intervals, at(k + n) is an octave above at(k) for    *)
(* every step k, at(0) is the tonic, at(k).offset(j) is at(k + j), and the *)
(* ascending (descending) notes are the tonic offset by the sums of the    *)
(* intervals taken forward (negated, backward) round the scale.            *)
\* The sum of the first i intervals of the scale taken round and round,
\* forward from its first or backward from its last.
RECURSIVE ForwardSum(_, _)
ForwardSum(scale, i) ==
  IF i = 0 THEN 0 ELSE ForwardSum(scale, i - 1) + scale[((i - 1) % Len(scale)) + 1]
RECURSIVE BackwardSum(_, _)
BackwardSum(scale, i) ==
  IF i = 0 THEN 0 ELSE BackwardSum(scale, i - 1) + scale[Len(scale) - ((i - 1) % Len(scale))]

C22_KeyIsPeriodic ==
  (op = "key" /\ res # <<>>) =>
    LET key == arg.key
        r == res[1]
    IN  CASE r.call = "at" ->
               /\ r.out.key = key /\ r.out.scale_steps = r.k
               /\ Key_at(key, r.k + Scale_num_intervals(key.scale)).note
                    = Note(r.out.note.semitones + 12)
               /\ r.k = 0 => r.out.note = key.tonic
          [] r.call = "offset" -> r.out = Key_at(key, r.k + r.j)
          [] r.call = "notes_ascending" ->
               /\ Len(r.out) = r.k
               /\ \A i \in 1 .. r.k :
                    /\ r.out[i].note = Note(key.tonic.semitones + ForwardSum(key.scale, i - 1))
                    /\ r.out[i].scale_steps = i - 1
          [] r.call = "notes_descending" ->
               /\ Len(r.out) = r.k
               /\ \A i \in 1 .. r.k :
                    /\ r.out[i].note = Note(key.tonic.semitones - BackwardSum(key.scale, i - 1))
                    /\ r.out[i].scale_steps = -(i - 1)

\* In G sharp minor, a note above the tonic was offset to one more than an
\* octave below it.
C22_Witness ==
  /\ op = "key" /\ res # <<>> /\ res[1].call = "offset"
  /\ arg.key = Key(Note(-4), Scale_minor)
  /\ res[1].k > 0 /\ res[1].k + res[1].j < -Scale_num_intervals(Scale_minor)
  /\ res[1].out.note.semitones < -4 - 12

====
